---- MODULE Spec2Model ----
(***************************************************************************)
(* minimp: a no_std MessagePack decoder (decode.rs) and encoder            *)
(* (encode.rs) over caller-owned byte buffers, with the width helpers of   *)
(* bytesize.rs.                                                            *)
(*                                                                         *)
(* Representation.  A byte is a number in 0..255 and a slice is a          *)
(* sequence of bytes; Rust's 0-based slice[i] is slice[i+1] here.  A       *)
(* 64-bit integer (i64 or u64) is its 64-bit pattern written as 8          *)
(* big-endian bytes, so that every width conversion of the source (as      *)
(* i64, as u8, from_be_bytes, to_be_bytes) is modelled by what it does to  *)
(* the bits; f32 and f64 are their 4 and 8 bytes of IEEE bits in           *)
(* big-endian order.  usize quantities (lengths, offsets, sizes) are       *)
(* plain integers.  A Rust panic (index out of range, slice length         *)
(* mismatch) is an outcome of its own, distinct from None.                 *)
(***************************************************************************)
EXTENDS Integers, Sequences, FiniteSets, TLC

VARIABLES
    buffer,   \* the caller-owned byte slice (decoder input, encoder output)
    elem,     \* result of the last from_slice_idx call, with its arguments
    arr,      \* the ArrayDecoder view being driven
    map,      \* the MapDecoder view being driven
    out,      \* what the last view call (next, get_element, reset) returned
    hist,     \* results of the next() calls made since the view was fresh or reset
    enc       \* the last write_to call: arguments, buffer before, return value

vars == <<buffer, elem, arr, map, out, hist, enc>>

(***************************************************************************)
(* Outcomes of a call                                                      *)
(***************************************************************************)
None  == [kind |-> "None"]
Panic == [kind |-> "Panic"]
\* the panic outcome of a function returning usize
PanicSize == 0 - 1

(***************************************************************************)
(* Slices and fixed-width integers                                         *)
(***************************************************************************)
\* &slice[a..b]: defined (no panic) when a <= b <= slice.len()
SliceOk(slice, a, b) == a <= b /\ b <= Len(slice)
Slice(slice, a, b) == SubSeq(slice, a + 1, b)

Reverse(s) == [i \in 1..Len(s) |-> s[Len(s) + 1 - i]]

Fill(b, n) == [k \in 1..n |-> b]

\* uN::from_be_bytes(bytes) as u64: zero extension to 64 bits
ZeroExt(bytes) == Fill(0, 8 - Len(bytes)) \o bytes
\* iN::from_be_bytes(bytes) as i64: sign extension to 64 bits
SignExt(bytes) == Fill(IF bytes[1] >= 128 THEN 255 ELSE 0, 8 - Len(bytes)) \o bytes

\* the low w bytes (big-endian) of the two's-complement pattern of integer n
RECURSIVE ToBytes(_, _)
ToBytes(n, w) == IF w = 0 THEN <<>> ELSE Append(ToBytes(n \div 256, w - 1), n % 256)
\* an integer as i64 / u64
I64(n) == ToBytes(n, 8)

\* the number a big-endian length prefix denotes (usize)
RECURSIVE BeUsize(_)
BeUsize(bytes) ==
    IF bytes = <<>> THEN 0
    ELSE BeUsize(SubSeq(bytes, 1, Len(bytes) - 1)) * 256 + bytes[Len(bytes)]

\* signed order of two 64-bit patterns: a < b as i64
RECURSIVE LexLess(_, _)
LexLess(a, b) ==
    IF a = <<>> THEN FALSE
    ELSE IF a[1] # b[1] THEN a[1] < b[1]
    ELSE LexLess(Tail(a), Tail(b))
Biased(a) == <<(a[1] + 128) % 256>> \o Tail(a)
I64Less(a, b) == LexLess(Biased(a), Biased(b))
\* unsigned order: a < b as u64
U64Less(a, b) == LexLess(a, b)

(***************************************************************************)
(* core::str::from_utf8 (validation only: the payload is borrowed)         *)
(***************************************************************************)
IsCont(b) == b >= 128 /\ b <= 191

RECURSIVE from_utf8(_)
from_utf8(s) ==
    IF s = <<>> THEN TRUE
    ELSE LET b == s[1]
             n == Len(s)
         IN  IF b < 128 THEN from_utf8(Tail(s))
             ELSE IF b >= 194 /\ b <= 223
                  THEN n >= 2 /\ IsCont(s[2]) /\ from_utf8(SubSeq(s, 3, n))
             ELSE IF b >= 224 /\ b <= 239
                  THEN /\ n >= 3
                       /\ IsCont(s[2]) /\ IsCont(s[3])
                       /\ (b = 224 => s[2] >= 160)
                       /\ (b = 237 => s[2] <= 159)
                       /\ from_utf8(SubSeq(s, 4, n))
             ELSE IF b >= 240 /\ b <= 244
                  THEN /\ n >= 4
                       /\ IsCont(s[2]) /\ IsCont(s[3]) /\ IsCont(s[4])
                       /\ (b = 240 => s[2] >= 144)
                       /\ (b = 244 => s[2] <= 143)
                       /\ from_utf8(SubSeq(s, 5, n))
             ELSE FALSE

(***************************************************************************)
(* DecodedElement                                                          *)
(***************************************************************************)
Dec_Nil == [kind |-> "Nil"]
Dec_Int(s, v) == [kind |-> "Int", size |-> s, val |-> v]
Dec_UInt(s, v) == [kind |-> "UInt", size |-> s, val |-> v]
Dec_Bool(b) == [kind |-> "Bool", b |-> b]
Dec_Bin(hs, v) == [kind |-> "Bin", header_size |-> hs, bytes |-> v]
Dec_Float(bits) == [kind |-> "Float", bits |-> bits]
Dec_Double(bits) == [kind |-> "Double", bits |-> bits]
Dec_Str(hs, v) == [kind |-> "Str", header_size |-> hs, str |-> v]
Dec_Ext(hs, t, d) == [kind |-> "Ext", header_size |-> hs, exttype |-> t, data |-> d]
Dec_Array(a) == [kind |-> "Array", dec |-> a]
Dec_Map(m) == [kind |-> "Map", dec |-> m]

\* Option<usize>
NoSize == <<>>
SomeSize(s) == <<s>>

ArrayDecoder(hs, lef, slice, n) ==
    [header_size |-> hs, local_endian_fields |-> lef, array |-> slice,
     elements |-> n, element_size |-> NoSize, next_element |-> 0, eob |-> FALSE]

MapDecoder(hs, lef, slice, n) ==
    [header_size |-> hs, local_endian_fields |-> lef, map |-> slice,
     elements |-> n, next_idx |-> 0, next_map |-> 0, eob |-> FALSE]

IsSome(r) == r.kind \notin {"None", "Panic"}

(***************************************************************************)
(* DecodedElement::from_slice_idx                                          *)
(***************************************************************************)
\* a numeric payload of w bytes after the tag: `if idx+w < slice.len()`
payload_fits(slice, idx, w) == idx + w < Len(slice)

\* the w payload bytes in the order from_be_bytes wants them
NumBytes(slice, idx, w, lef) ==
    LET raw == Slice(slice, idx + 1, idx + 1 + w)
    IN  IF lef THEN Reverse(raw) ELSE raw

\* uint 8/16/32/64
DecodeUInt(slice, idx, w, lef) ==
    IF payload_fits(slice, idx, w)
    THEN Dec_UInt(w, ZeroExt(NumBytes(slice, idx, w, lef)))
    ELSE None

\* int 8: i16::from_be_bytes([0x0, slice[idx+1]]) as i64
DecodeInt8(slice, idx) ==
    IF payload_fits(slice, idx, 1)
    THEN Dec_Int(1, SignExt(<<0, slice[idx + 2]>>))
    ELSE None

\* int 16/32/64
DecodeInt(slice, idx, w, lef) ==
    IF payload_fits(slice, idx, w)
    THEN Dec_Int(w, SignExt(NumBytes(slice, idx, w, lef)))
    ELSE None

\* float 32 / float 64
DecodeFloat(slice, idx, w, lef) ==
    IF payload_fits(slice, idx, w)
    THEN IF w = 4 THEN Dec_Float(NumBytes(slice, idx, w, lef))
                  ELSE Dec_Double(NumBytes(slice, idx, w, lef))
    ELSE None

\* fixstr: `if idx + length < slice.len()`

DecodeFixStr(slice, idx) ==
    LET length == slice[idx + 1] % 32
    IN  IF idx + length < Len(slice)
        THEN IF from_utf8(Slice(slice, idx + 1, idx + 1 + length))
             THEN Dec_Str(0, Slice(slice, idx + 1, idx + 1 + length))
             ELSE None
        ELSE None

\* str 8 and bin 8
DecodeLen8(slice, idx, isStr) ==
    IF idx + 1 < Len(slice)
    THEN LET length == slice[idx + 2]
         IN  IF idx + 1 + length < Len(slice)
             THEN LET v == Slice(slice, idx + 2, idx + 2 + length)
                  IN  IF isStr
                      THEN IF from_utf8(v) THEN Dec_Str(1, v) ELSE None
                      ELSE Dec_Bin(1, v)
             ELSE None
    ELSE None

\* the length prefix of str/bin/ext 16 and 32: slice[idx+1..idx+1+h] is taken
\* with no check before it, then read with from_le_bytes or from_be_bytes
prefix_ok(slice, idx, h) == SliceOk(slice, idx + 1, idx + 1 + h)
prefix_size(slice, idx, h, lef) ==
    LET raw == Slice(slice, idx + 1, idx + 1 + h)
    IN  BeUsize(IF lef THEN Reverse(raw) ELSE raw)

\* str 16/32 and bin 16/32
DecodeLenN(slice, idx, h, lef, isStr) ==
    IF ~prefix_ok(slice, idx, h) THEN Panic
    ELSE LET size == prefix_size(slice, idx, h, lef)
         IN  IF idx + h + size < Len(slice)
             THEN LET v == Slice(slice, idx + 1 + h, idx + 1 + h + size)
                  IN  IF isStr
                      THEN IF from_utf8(v) THEN Dec_Str(h, v) ELSE None
                      ELSE Dec_Bin(h, v)
             ELSE None

\* ext 8
DecodeExt8(slice, idx) ==
    IF idx + 2 < Len(slice)
    THEN LET length == slice[idx + 2]
             t == slice[idx + 3]
         IN  IF idx + 1 + length < Len(slice)
             THEN IF SliceOk(slice, idx + 3, idx + 3 + length)
                  THEN Dec_Ext(1, t, Slice(slice, idx + 3, idx + 3 + length))
                  ELSE Panic
             ELSE None
    ELSE None

\* ext 16
DecodeExt16(slice, idx, lef) ==
    IF ~prefix_ok(slice, idx, 2) THEN Panic
    ELSE LET size == prefix_size(slice, idx, 2, lef)
         IN  IF idx + 3 + size < Len(slice)
             THEN Dec_Ext(2, slice[idx + 4], Slice(slice, idx + 4, idx + 4 + size))
             ELSE None

\* ext 32: the type byte is read at idx+4 and the data from idx+5
DecodeExt32(slice, idx, lef) ==
    IF ~prefix_ok(slice, idx, 4) THEN Panic
    ELSE LET size == prefix_size(slice, idx, 4, lef)
         IN  IF idx + 5 + size < Len(slice)
             THEN Dec_Ext(4, slice[idx + 5], Slice(slice, idx + 5, idx + 5 + size))
             ELSE None

\* the bound each fixext arm compares with slice.len(): `if idx+bound < slice.len()`
fixext_bound(len) == IF len = 1 THEN 2 ELSE len + 2

\* fixext 1/2/4/8/16
DecodeFixExt(slice, idx, len) ==
    IF idx + fixext_bound(len) < Len(slice)
    THEN Dec_Ext(0, slice[idx + 2], Slice(slice, idx + 2, idx + 2 + len))
    ELSE None

from_slice_idx(slice, idx, local_endian_fields) ==
    IF idx >= Len(slice) THEN Panic   \* slice[idx] out of range
    ELSE
    LET tag == slice[idx + 1]
        lef == local_endian_fields
    IN  IF tag <= 127 THEN Dec_Int(0, ZeroExt(<<tag>>))
        ELSE IF tag > 224 THEN Dec_Int(0, I64(tag - 256))
        ELSE IF tag >= 128 /\ tag <= 143
             THEN Dec_Map(MapDecoder(0, lef, Slice(slice, idx + 1, Len(slice)), tag % 16))
        ELSE IF tag >= 144 /\ tag <= 159
             THEN Dec_Array(ArrayDecoder(0, lef, Slice(slice, idx + 1, Len(slice)), tag % 16))
        ELSE IF tag >= 160 /\ tag <= 191 THEN DecodeFixStr(slice, idx)
        ELSE CASE tag = 192 -> Dec_Nil
               [] tag = 204 -> DecodeUInt(slice, idx, 1, lef)
               [] tag = 205 -> DecodeUInt(slice, idx, 2, lef)
               [] tag = 206 -> DecodeUInt(slice, idx, 4, lef)
               [] tag = 207 -> DecodeUInt(slice, idx, 8, lef)
               [] tag = 208 -> DecodeInt8(slice, idx)
               [] tag = 209 -> DecodeInt(slice, idx, 2, lef)
               [] tag = 210 -> DecodeInt(slice, idx, 4, lef)
               [] tag = 211 -> DecodeInt(slice, idx, 8, lef)
               [] tag = 194 -> Dec_Bool(FALSE)
               [] tag = 195 -> Dec_Bool(TRUE)
               [] tag = 202 -> DecodeFloat(slice, idx, 4, lef)
               [] tag = 203 -> DecodeFloat(slice, idx, 8, lef)
               [] tag = 217 -> DecodeLen8(slice, idx, TRUE)
               [] tag = 218 -> DecodeLenN(slice, idx, 2, lef, TRUE)
               [] tag = 219 -> DecodeLenN(slice, idx, 4, lef, TRUE)
               [] tag = 196 -> DecodeLen8(slice, idx, FALSE)
               [] tag = 197 -> DecodeLenN(slice, idx, 2, lef, FALSE)
               [] tag = 198 -> DecodeLenN(slice, idx, 4, lef, FALSE)
               [] tag = 199 -> DecodeExt8(slice, idx)
               [] tag = 200 -> DecodeExt16(slice, idx, lef)
               [] tag = 201 -> DecodeExt32(slice, idx, lef)
               [] tag = 212 -> DecodeFixExt(slice, idx, 1)
               [] tag = 213 -> DecodeFixExt(slice, idx, 2)
               [] tag = 214 -> DecodeFixExt(slice, idx, 4)
               [] tag = 215 -> DecodeFixExt(slice, idx, 8)
               [] tag = 216 -> DecodeFixExt(slice, idx, 16)
               [] OTHER -> None

(***************************************************************************)
(* byte_size, ArrayDecoder and MapDecoder.  A method taking &mut self      *)
(* yields the view after the call and what the call returned.              *)
(***************************************************************************)
Ret(self, ret) == [self |-> self, ret |-> ret]
SomeIdx(i) == [kind |-> "Idx", idx |-> i]
MapElements(key, value) == [kind |-> "Pair", key |-> key, value |-> value]

\* byte_size is defined last, by recursion through the views (an element's
\* size sends for the sizes of the elements inside it).  A value the source
\* binds with `let` or `if let` and uses several times is the parameter of a
\* helper operator here.
RECURSIVE byte_size(_)

ArrayDecoder_get_at_idx(self, idx) ==
    from_slice_idx(self.array, idx, self.local_endian_fields)

\* a + b on usize, either operand possibly a panic
AddSizes(a, b) == IF a = PanicSize \/ b = PanicSize THEN PanicSize ELSE a + b

SomeWidth(s) == [kind |-> "Width", size |-> s]
SizeToWidth(s) == IF s = PanicSize THEN Panic ELSE SomeWidth(s)

\* `if let Some(s) = self.get_at_idx(0) { elsize = s.byte_size() } else { return None }`
WidthOfFirst(first) ==
    IF IsSome(first) THEN SizeToWidth(byte_size(first)) ELSE first

\* elsize: the memoized element_size, or the size of element 0
element_width(self) ==
    IF self.element_size # NoSize THEN SomeWidth(self.element_size[1])
    ELSE WidthOfFirst(ArrayDecoder_get_at_idx(self, 0))

\* the byte index at which element `element` starts: elsize * element
start_idx(elsize, element) == elsize * element

\* idx_from_element once elsize is known (w)
IdxAtWidth(self, element, w) ==
    IF w.kind # "Width" THEN Ret(self, w)
    ELSE LET s1 == [self EXCEPT !.element_size = SomeSize(w.size)]
         IN  IF element >= s1.elements THEN Ret(s1, None)
             ELSE IF start_idx(w.size, element) >= Len(s1.array)
                  THEN Ret([s1 EXCEPT !.eob = TRUE], None)
             ELSE Ret(s1, SomeIdx(start_idx(w.size, element)))

ArrayDecoder_idx_from_element(self, element) ==
    IdxAtWidth(self, element, element_width(self))

\* `if let Some(idx) = &self.idx_from_element(element) { self.get_at_idx(*idx) }`
ElementAt(r) ==
    IF r.ret.kind = "Idx"
    THEN Ret(r.self, ArrayDecoder_get_at_idx(r.self, r.ret.idx))
    ELSE r

\* a get_element that leaves the sequential cursor on the element it fetched
ArrayDecoder_get_element_seek(self, element) ==
    IF element >= self.elements THEN Ret(self, None)
    ELSE ElementAt(ArrayDecoder_idx_from_element([self EXCEPT !.next_element = element],
                                                 element))

ArrayDecoder_get_element(self, element) ==
    IF element >= self.elements THEN Ret(self, None)
    ELSE ElementAt(ArrayDecoder_idx_from_element(self, element))

\* a reset that leaves the cursor where it is
ArrayDecoder_keep_cursor(self) == self
ArrayDecoder_reset(self) == [self EXCEPT !.next_element = 0, !.eob = FALSE]

\* the ordinal next() fetches, given the cursor it has just advanced
fetch_ordinal(next_element) == next_element

\* `self.next_element += 1; self.get_element(self.next_element)`
AdvanceAndGet(s1) ==
    ArrayDecoder_get_element(s1, fetch_ordinal(s1.next_element))

\* a next() that advances the cursor without comparing it with the count
ArrayDecoder_next_unguarded(self) ==
    AdvanceAndGet([self EXCEPT !.next_element = @ + 1])

\* Iterator::next for ArrayDecoder: the cursor is advanced, then used
ArrayDecoder_next(self) ==
    IF self.next_element < self.elements
    THEN AdvanceAndGet([self EXCEPT !.next_element = @ + 1])
    ELSE Ret(self, None)

\* `for element in new_self { data_size += element.byte_size() }`
RECURSIVE ArrayDecoder_sum(_)
ArrayDecoder_step(r) ==
    IF r.ret.kind = "Panic" THEN PanicSize
    ELSE IF r.ret.kind = "None" THEN 0
    ELSE AddSizes(byte_size(r.ret), ArrayDecoder_sum(r.self))
ArrayDecoder_sum(view) == ArrayDecoder_step(ArrayDecoder_next(view))

ArrayDecoder_byte_size(self) ==
    AddSizes(ArrayDecoder_sum(ArrayDecoder_reset(self)), self.header_size + 1)

MapElements_byte_size(pair) == AddSizes(byte_size(pair.key), byte_size(pair.value))

\* get_at_idx once the key is decoded and sized
ValueAfterKey(self, key, value_idx) ==
    IF value_idx >= Len(self.map) THEN None
    ELSE (LET val == from_slice_idx(self.map, value_idx, self.local_endian_fields)
          IN  IF IsSome(val) THEN MapElements(key, val) ELSE val)

KeySized(self, idx, key, ksize) ==
    IF ksize = PanicSize THEN Panic ELSE ValueAfterKey(self, key, idx + ksize)

KeyDecoded(self, idx, key) ==
    IF IsSome(key) THEN KeySized(self, idx, key, byte_size(key)) ELSE key

MapDecoder_get_at_idx(self, idx) ==
    KeyDecoded(self, idx, from_slice_idx(self.map, idx, self.local_endian_fields))

\* a reset that forgets the byte cursor
MapDecoder_reset_count_only(self) ==
    [self EXCEPT !.next_map = 0, !.eob = FALSE]

MapDecoder_reset(self) ==
    [self EXCEPT !.next_map = 0, !.next_idx = 0, !.eob = FALSE]

\* the pair-count bound of MapDecoder::next: `self.next_map < self.elements/2`
map_limit(elements) == elements \div 2

\* next() once the pair at the cursor is decoded and sized
PairSized(self, map_opt, size) ==
    IF size = PanicSize THEN Ret(self, Panic)
    ELSE Ret([self EXCEPT !.next_idx = @ + size,
                          !.next_map = @ + 1,
                          !.eob = \/ self.eob
                                  \/ self.next_idx + size >= Len(self.map)
                                  \/ self.next_map + 1 >= self.elements],
             map_opt)

\* a next() that steps over a pair it could not decode
PairDecoded_skip(self, map_opt) ==
    IF map_opt.kind = "Pair"
    THEN PairSized(self, map_opt, MapElements_byte_size(map_opt))
    ELSE Ret([self EXCEPT !.next_idx = @ + 1], map_opt)

PairDecoded(self, map_opt) ==
    IF map_opt.kind = "Pair"
    THEN PairSized(self, map_opt, MapElements_byte_size(map_opt))
    ELSE Ret(self, map_opt)

\* Iterator::next for MapDecoder
MapDecoder_next(self) ==
    IF /\ self.next_idx < Len(self.map)
       /\ self.next_map < map_limit(self.elements)
       /\ ~self.eob
    THEN PairDecoded(self, MapDecoder_get_at_idx(self, self.next_idx))
    ELSE Ret(self, None)

\* `for map in new_self { data_size += map.byte_size() }`
RECURSIVE MapDecoder_sum(_)
MapDecoder_step(r) ==
    IF r.ret.kind = "Panic" THEN PanicSize
    ELSE IF r.ret.kind = "None" THEN 0
    ELSE AddSizes(MapElements_byte_size(r.ret), MapDecoder_sum(r.self))
MapDecoder_sum(view) == MapDecoder_step(MapDecoder_next(view))

MapDecoder_byte_size(self) ==
    AddSizes(MapDecoder_sum(MapDecoder_reset(self)), self.header_size + 1)

\* DecodedElement::byte_size
byte_size(e) ==
    CASE e.kind = "Nil" -> 1
      [] e.kind = "Int" -> e.size + 1
      [] e.kind = "UInt" -> e.size + 1
      [] e.kind = "Bool" -> 1
      [] e.kind = "Bin" -> e.header_size + Len(e.bytes) + 1
      [] e.kind = "Float" -> 5
      [] e.kind = "Double" -> 9
      [] e.kind = "Str" -> e.header_size + Len(e.str) + 1
      [] e.kind = "Ext" -> e.header_size + Len(e.data) + 2
      [] e.kind = "Array" -> ArrayDecoder_byte_size(e.dec)
      [] e.kind = "Map" -> MapDecoder_byte_size(e.dec)

(***************************************************************************)
(* bytesize.rs                                                             *)
(***************************************************************************)
I32_MAX == SignExt(<<127, 255, 255, 255>>)
I32_MIN == SignExt(<<128, 0, 0, 0>>)
I16_MAX == SignExt(<<127, 255>>)
I16_MIN == SignExt(<<128, 0>>)
I8_MAX == SignExt(<<127>>)
I8_MIN == SignExt(<<128>>)
U32_MAX == ZeroExt(<<255, 255, 255, 255>>)
U16_MAX == ZeroExt(<<255, 255>>)
U8_MAX == ZeroExt(<<255>>)

get_min_size_signed(i) ==
    IF I64Less(I32_MAX, i) \/ I64Less(i, I32_MIN) THEN 8
    ELSE IF I64Less(I16_MAX, i) \/ I64Less(i, I16_MIN) THEN 4
    ELSE IF I64Less(I8_MAX, i) \/ I64Less(i, I8_MIN) THEN 2
    ELSE 1

\* a helper whose boundaries are one too low
get_min_size_unsigned_low(i) ==
    IF ~U64Less(i, U32_MAX) THEN 8
    ELSE IF ~U64Less(i, U16_MAX) THEN 4
    ELSE IF ~U64Less(i, U8_MAX) THEN 2
    ELSE 1

get_min_size_unsigned(i) ==
    IF U64Less(U32_MAX, i) THEN 8
    ELSE IF U64Less(U16_MAX, i) THEN 4
    ELSE IF U64Less(U8_MAX, i) THEN 2
    ELSE 1

(***************************************************************************)
(* lib.rs, the crate root: its own copy of the size helpers and of         *)
(* from_slice_idx (nil, bool, fixint, uint, int and float tags only)       *)
(***************************************************************************)
lib_get_min_size_signed(i) ==
    IF I64Less(I32_MAX, i) \/ I64Less(i, I32_MIN) THEN 8
    ELSE IF I64Less(I16_MAX, i) \/ I64Less(i, I16_MIN) THEN 4
    ELSE IF I64Less(I8_MAX, i) \/ I64Less(i, I8_MIN) THEN 2
    ELSE 8

lib_get_min_size_unsigned(i) ==
    IF U64Less(U32_MAX, i) THEN 8
    ELSE IF U64Less(U16_MAX, i) THEN 4
    ELSE IF U64Less(U8_MAX, i) THEN 2
    ELSE 1

\* int 8: `slice[idx+1] as i64`
lib_DecodeInt8(slice, idx) ==
    IF payload_fits(slice, idx, 1)
    THEN Dec_Int(1, ZeroExt(<<slice[idx + 2]>>))
    ELSE None

\* the byte the match dispatches on: `match slice[0]`
lib_match_byte(slice, idx) == slice[1]

lib_from_slice_idx(slice, idx, local_endian_fields) ==
    IF idx >= Len(slice) THEN Panic   \* slice[idx] out of range
    ELSE
    LET tag == lib_match_byte(slice, idx)
        lef == local_endian_fields
    IN  IF slice[idx + 1] < 128 THEN Dec_Int(0, ZeroExt(<<slice[idx + 1]>>))
        ELSE IF slice[idx + 1] > 224 THEN Dec_Int(0, ZeroExt(<<slice[idx + 1]>>))
        ELSE CASE tag = 192 -> Dec_Nil
               [] tag = 204 -> DecodeUInt(slice, idx, 1, lef)
               [] tag = 205 -> DecodeUInt(slice, idx, 2, lef)
               [] tag = 206 -> DecodeUInt(slice, idx, 4, lef)
               [] tag = 207 -> DecodeUInt(slice, idx, 8, lef)
               [] tag = 208 -> lib_DecodeInt8(slice, idx)
               [] tag = 209 -> DecodeInt(slice, idx, 2, lef)
               [] tag = 210 -> DecodeInt(slice, idx, 4, lef)
               [] tag = 211 -> DecodeInt(slice, idx, 8, lef)
               [] tag = 194 -> Dec_Bool(FALSE)
               [] tag = 195 -> Dec_Bool(TRUE)
               [] tag = 202 -> DecodeFloat(slice, idx, 4, lef)
               [] tag = 203 -> DecodeFloat(slice, idx, 8, lef)
               [] OTHER -> None

(***************************************************************************)
(* EncodedElement and write_to (encode.rs).  The Array arm of write_to has *)
(* no body and Map has no arm: the values below are the variants write_to  *)
(* has code for.                                                           *)
(***************************************************************************)
Enc_Nil == [kind |-> "Nil"]
Enc_Int(i) == [kind |-> "Int", val |-> i]
Enc_UInt(i) == [kind |-> "UInt", val |-> i]
Enc_Bool(b) == [kind |-> "Bool", b |-> b]
Enc_Bin(v) == [kind |-> "Bin", bytes |-> v]
Enc_Float(bits) == [kind |-> "Float", bits |-> bits]
Enc_Double(bits) == [kind |-> "Double", bits |-> bits]
Enc_Str(v) == [kind |-> "Str", str |-> v]
Enc_Ext(t, d) == [kind |-> "Ext", exttype |-> t, data |-> d]
Enc_Array(elems) == [kind |-> "Array", elems |-> elems]
Enc_Map(pairs) == [kind |-> "Map", pairs |-> pairs]

\* what a write_to call leaves: the buffer and the returned count (PanicSize
\* when the call panicked, the buffer then holding what was written before)
WRet(buf, n) == [buf |-> buf, ret |-> n]

\* slice[pos..pos+bytes.len()] = bytes, pos counted from the start of slice
WriteAt(slice, pos, bytes) ==
    [k \in 1..Len(slice) |->
        IF k > pos /\ k <= pos + Len(bytes) THEN bytes[k - pos] ELSE slice[k]]

\* to_ne_bytes on the build target: little-endian hosts store the low byte first
HostLittleEndian == TRUE
\* (i as iN / uN).to_be_bytes() or, with local_endian_fields, .to_ne_bytes()
FieldBytes(i, w, lef) ==
    LET be == SubSeq(i, Len(i) - w + 1, Len(i))
    IN  IF lef /\ HostLittleEndian THEN Reverse(be) ELSE be

\* the capacity checks, on write_slice.len()
num_fits(wlen, need) == wlen >= need
\* a capacity check that forgets the tag byte
bin_fits_short(wlen, size_n, len) == wlen >= size_n + len
bin_fits(wlen, size_n, len) == wlen >= 1 + size_n + len
str_fits(wlen, size_n, len) == wlen >= 1 + size_n + len
fixext_fits(wlen, len) == wlen > 2 + len
ext_fits(wlen, size_n, len) == wlen >= 3 + size_n + len

\* a tagged number of w payload bytes
WriteNum(slice, idx, tag, i, w, lef) ==
    IF num_fits(Len(slice) - idx, 1 + w)
    THEN WRet(WriteAt(slice, idx, <<tag>> \o FieldBytes(i, w, lef)), 1 + w)
    ELSE WRet(slice, 0)

WriteInt(slice, idx, i, lef) ==
    LET size == get_min_size_signed(i)
    IN  IF size = 1
        THEN IF I64Less(I64(0), i)
             THEN WRet(WriteAt(slice, idx, <<i[8]>>), 1)
             ELSE IF I64Less(i, I64(0)) /\ I64Less(I64(-32), i)
             THEN WRet(WriteAt(slice, idx, <<i[8]>>), 1)
             ELSE WriteNum(slice, idx, 208, i, 1, FALSE)
        ELSE IF size = 2 THEN WriteNum(slice, idx, 209, i, 2, lef)
        ELSE IF size = 4 THEN WriteNum(slice, idx, 210, i, 4, lef)
        ELSE WriteNum(slice, idx, 211, i, 8, lef)

WriteUInt(slice, idx, i, lef) ==
    LET size == get_min_size_unsigned(i)
    IN  IF size = 1 THEN WriteNum(slice, idx, 204, i, 1, FALSE)
        ELSE IF size = 2 THEN WriteNum(slice, idx, 205, i, 2, lef)
        ELSE IF size = 4 THEN WriteNum(slice, idx, 206, i, 4, lef)
        ELSE WriteNum(slice, idx, 207, i, 8, lef)

WriteBin(slice, idx, i) ==
    LET size_n == get_min_size_unsigned(I64(Len(i)))
        tag == IF size_n = 1 THEN 196 ELSE IF size_n = 2 THEN 197 ELSE 198
    IN  IF bin_fits(Len(slice) - idx, size_n, Len(i))
        THEN IF size_n = 8 THEN WRet(slice, 0)
             ELSE WRet(WriteAt(slice, idx, <<tag>> \o ToBytes(Len(i), size_n) \o i),
                       1 + size_n + Len(i))
        ELSE WRet(slice, 0)

\* Str.  With size_n = 1 the test `size_n < 31` always chooses the fixstr arm.
\* The tag is (len as u8) + 0xA0: for len >= 96 a build with overflow checks
\* panics on the addition, before the store, and a build without them stores
\* the wrapped sum.  write_slice[1..len].copy_from_slice(bytes) then panics:
\* the range is inverted for len = 0 and one byte shorter than bytes otherwise.
WriteStr(slice, idx, bytes, overflow_checks) ==
    LET size_n == get_min_size_unsigned(I64(Len(bytes)))
        tag == IF size_n = 2 THEN 218 ELSE 219
    IN  IF str_fits(Len(slice) - idx, size_n, Len(bytes))
        THEN IF size_n = 1
             THEN IF size_n < 31
                  THEN IF overflow_checks /\ Len(bytes) + 160 > 255
                       THEN WRet(slice, PanicSize)
                       ELSE WRet(WriteAt(slice, idx, <<(Len(bytes) + 160) % 256>>),
                                 PanicSize)
                  ELSE WRet(WriteAt(slice, idx, <<217, Len(bytes)>> \o bytes),
                            1 + size_n + Len(bytes))
             ELSE IF size_n = 8 THEN WRet(slice, 0)
             ELSE WRet(WriteAt(slice, idx, <<tag>> \o ToBytes(Len(bytes), size_n) \o bytes),
                       1 + size_n + Len(bytes))
        ELSE WRet(slice, 0)

\* usize::log2 of a fixext length
log2(n) == CASE n = 1 -> 0 [] n = 2 -> 1 [] n = 4 -> 2 [] n = 8 -> 3 [] n = 16 -> 4

\* Ext.  max_size = u32::MAX - 1 is beyond every slice held here, so the
\* arm `3..=max_size` is every length from 3 up that is no fixext length.
WriteExt(slice, idx, t, i) ==
    LET len == Len(i)
        size_n == get_min_size_unsigned(I64(len))
    IN  IF len \in {1, 2, 4, 8, 16}
        THEN IF fixext_fits(Len(slice) - idx, len)
             THEN WRet(WriteAt(slice, idx, <<212 + log2(len), t>> \o i), 3)
             ELSE WRet(slice, 0)
        ELSE IF len >= 3
        THEN IF ext_fits(Len(slice) - idx, size_n, len)
             THEN WRet(WriteAt(slice, idx,
                               <<199 + (size_n \div 2)>> \o ToBytes(len, size_n) \o i),
                       1 + size_n + len)
             ELSE WRet(slice, 0)
        ELSE WRet(slice, 0)

\* what an arm without a result yields: no byte count
NoCount == 0 - 2

write_to(self, slice, idx, local_endian_fields, overflow_checks) ==
    IF idx >= Len(slice) THEN WRet(slice, 0)
    ELSE CASE self.kind = "Nil" -> WRet(WriteAt(slice, idx, <<192>>), 1)
           [] self.kind = "Int" -> WriteInt(slice, idx, self.val, local_endian_fields)
           [] self.kind = "UInt" -> WriteUInt(slice, idx, self.val, local_endian_fields)
           [] self.kind = "Bool" ->
                WRet(WriteAt(slice, idx, <<IF self.b THEN 195 ELSE 194>>), 1)
           [] self.kind = "Bin" -> WriteBin(slice, idx, self.bytes)
           [] self.kind = "Float" ->
                WriteNum(slice, idx, 202, self.bits, 4, local_endian_fields)
           [] self.kind = "Double" ->
                WriteNum(slice, idx, 203, self.bits, 8, local_endian_fields)
           [] self.kind = "Str" -> WriteStr(slice, idx, self.str, overflow_checks)
           [] self.kind = "Ext" -> WriteExt(slice, idx, self.exttype, self.data)
           \* `Self::Array(arr) => { }`: the arm has comments and no statement
           [] self.kind = "Array" -> WRet(slice, NoCount)
           \* the match has no arm for Self::Map
           [] self.kind = "Map" -> WRet(slice, NoCount)

(***************************************************************************)
(* Bounds and inputs                                                       *)
(***************************************************************************)
\* longest freely generated input buffer
MaxLen == 4
\* longest small output buffer handed to write_to
MaxOut == 6
\* most next()/get_element() calls made on one view between two resets
MaxCalls == 4

\* bytes of the freely generated buffers: fixints 0 and 1, fixmap 2,
\* fixarray 2, ext 8, str 16
Alphabet == {0, 1, 130, 146, 199, 218}

FreeBuffers == UNION {[1..n -> Alphabet] : n \in 0..MaxLen}

\* encodings of single elements, one or more per tag family
Seeds ==
    { <<8>>, <<224>>, <<254>>, <<255>>, <<192>>, <<194>>, <<195>>,
      <<204, 200>>, <<205, 0>>, <<205, 39, 58>>, <<206, 0, 1, 0, 0>>,
      <<207, 255, 255, 255, 255, 255, 255, 255, 254>>,
      <<208, 255>>, <<209, 255, 0>>, <<210, 255, 255, 255, 252>>,
      <<211, 128, 0, 0, 0, 0, 0, 0, 1>>,
      <<202, 64, 73, 15, 219>>, <<203, 255, 236, 235>>,
      <<203, 64, 9, 33, 251, 84, 68, 45, 24>>,
      <<161, 97>>, <<161, 255>>, <<162, 195, 169>>,
      <<217, 1, 97>>, <<218, 0, 1, 97>>, <<219, 0, 0, 0, 1, 97>>,
      <<217, 1, 255>>, <<218, 0, 1, 255>>, <<219, 0, 0, 0, 1, 255>>,
      <<196, 2, 1, 2>>, <<197, 0, 1, 9>>, <<198, 0, 0, 0, 1, 9>>,
      <<199, 2, 7, 9, 8>>, <<200, 0, 1, 7, 9>>, <<201, 0, 0, 0, 1, 7, 9>>,
      <<212, 7, 9>>, <<213, 7, 1, 2>>, <<214, 7, 1, 2, 3, 4>>,
      <<215, 7>> \o Fill(9, 8), <<216, 7>> \o Fill(9, 16),
      <<192, 195>>, <<204, 192, 7>>,
      <<144>>, <<128>>, <<145, 1>>, <<146, 1, 2>>, <<146, 161, 97, 1>>, <<146, 145, 1, 145, 2>>,
      <<145, 213, 7, 1, 2>>, <<147, 204, 1, 204, 2, 204, 3>>,
      <<147, 0, 205, 204, 0>>,
      <<129, 1, 2>>, <<130, 1, 2, 3, 4>>, <<130, 161, 97, 1, 161, 98, 192>>,
      <<220, 0, 1, 1>>, <<222, 0, 1, 1, 2>> }

\* every seed, cut short by any number of bytes, and followed by one more byte
SeedBuffers ==
    UNION {{SubSeq(s, 1, n) : n \in 1..Len(s)} \cup {Append(s, 1)} : s \in Seeds}

NoCall == [kind |-> "NoCall"]
NoView == [kind |-> "NoView"]

(***************************************************************************)
(* Spec: a caller decodes at an offset of its buffer, then asks the size   *)
(***************************************************************************)
Init ==
    /\ \/ buffer \in FreeBuffers
       \/ buffer \in SeedBuffers
    /\ elem = NoCall
    /\ arr = NoView
    /\ map = NoView
    /\ out = NoCall
    /\ hist = <<>>
    /\ enc = NoCall

\* let e = DecodedElement::from_slice_idx(&buffer, idx, lef)
DecodeAt(idx, lef) ==
    /\ IF elem.kind = "NoCall" THEN TRUE ELSE elem.res.kind # "Panic"
    /\ elem' = [kind |-> "Decoded", idx |-> idx, lef |-> lef,
                res |-> from_slice_idx(buffer, idx, lef), size |-> NoSize]
    /\ UNCHANGED <<buffer, arr, map, out, hist, enc>>

\* e.byte_size()
ElemByteSize ==
    /\ elem.kind = "Decoded"
    /\ IsSome(elem.res)
    /\ elem.size = NoSize
    /\ elem' = [elem EXCEPT !.size = SomeSize(byte_size(elem.res))]
    /\ UNCHANGED <<buffer, arr, map, out, hist, enc>>

Next ==
    \/ \E idx \in 0..Len(buffer), lef \in BOOLEAN : DecodeAt(idx, lef)
    \/ ElemByteSize

Spec == Init /\ [][Next]_vars

(***************************************************************************)
(* SpecEncode: a caller hands write_to a value, a buffer and an offset,    *)
(* then decodes what was written                                           *)
(***************************************************************************)
\* what the buffers hold before the call: 0xC1, a byte no encoding below has
OutBuffers == {Fill(193, n) : n \in 0..MaxOut} \cup {Fill(193, n) : n \in 258..260}

Offsets(b) == {i \in 0..(Len(b) + 1) : i <= MaxOut + 1}

EncInts ==
    {I64(n) : n \in {0, 1, 5, 127, 128, 255, 256, 32767, 32768, 65535, 65536,
                     -1, -31, -32, -33, -100, -128, -129, -32768, -32769}}
    \cup {I32_MAX, I32_MIN, U32_MAX,
          <<0, 0, 0, 0, 128, 0, 0, 0>>, <<0, 0, 0, 1, 0, 0, 0, 0>>,
          <<255, 255, 255, 255, 127, 255, 255, 255>>,
          <<127, 255, 255, 255, 255, 255, 255, 255>>,
          <<128, 0, 0, 0, 0, 0, 0, 0>>}

EncPayloads ==
    {<<>>, <<9>>, <<9, 8>>, <<9, 8, 7>>, <<9, 8, 7, 6>>, <<9, 8, 7, 6, 5>>, Fill(9, 256)}

EncStrings == {<<>>, <<97>>, <<97, 98>>, <<195, 169>>, Fill(97, 96), Fill(97, 256)}

EncValues ==
    {Enc_Nil, Enc_Bool(TRUE), Enc_Bool(FALSE),
     Enc_Float(<<64, 73, 15, 219>>), Enc_Double(<<64, 9, 33, 251, 84, 68, 45, 24>>)}
    \cup {Enc_Int(i) : i \in EncInts}
    \cup {Enc_UInt(i) : i \in EncInts}
    \cup {Enc_Bin(v) : v \in EncPayloads}
    \cup {Enc_Str(v) : v \in EncStrings}
    \cup {Enc_Ext(7, v) : v \in EncPayloads}

InitEncode ==
    /\ buffer \in OutBuffers
    /\ elem = NoCall
    /\ arr = NoView
    /\ map = NoView
    /\ out = NoCall
    /\ hist = <<>>
    /\ enc = NoCall

Written(v, idx, lef, before, r) ==
    /\ buffer' = r.buf
    /\ enc' = [kind |-> "Written", v |-> v, idx |-> idx, lef |-> lef,
               before |-> before, ret |-> r.ret]

\* let n = v.write_to(&mut buffer, idx, lef), in a build with or without
\* overflow checks
WriteTo(v, idx, lef, overflow_checks) ==
    /\ enc.kind = "NoCall"
    /\ Written(v, idx, lef, buffer, write_to(v, buffer, idx, lef, overflow_checks))
    /\ UNCHANGED <<elem, arr, map, out, hist>>

\* DecodedElement::from_slice_idx(&buffer, idx, lef) on what write_to left
ReadBack ==
    /\ enc.kind = "Written"
    /\ enc.ret > 0
    /\ elem.kind = "NoCall"
    /\ elem' = [kind |-> "Decoded", idx |-> enc.idx, lef |-> enc.lef,
                res |-> from_slice_idx(buffer, enc.idx, enc.lef), size |-> NoSize]
    /\ UNCHANGED <<buffer, arr, map, out, hist, enc>>

NextEncode ==
    \/ \E v \in EncValues, idx \in Offsets(buffer), lef \in BOOLEAN, checks \in BOOLEAN :
          WriteTo(v, idx, lef, checks)
    \/ ReadBack

SpecEncode == InitEncode /\ [][NextEncode]_vars

(***************************************************************************)
(* SpecEncodeTree: a caller hands write_to an Array or a Map               *)
(***************************************************************************)
EncLeaves == {Enc_Nil, Enc_Bool(TRUE), Enc_Int(I64(5)), Enc_Int(I64(-100)), Enc_Str(<<97>>)}

EncContainers ==
    {Enc_Array(<<>>), Enc_Map(<<>>), Enc_Array(<<Enc_Array(<<Enc_Nil>>), Enc_Int(I64(1))>>)}
    \cup {Enc_Array(<<a>>) : a \in EncLeaves}
    \cup {Enc_Array(<<a, b>>) : a \in EncLeaves, b \in EncLeaves}
    \cup {Enc_Map(<<<<a, b>>>>) : a \in EncLeaves, b \in EncLeaves}

NextEncodeTree ==
    \E v \in EncContainers, idx \in Offsets(buffer), lef \in BOOLEAN, checks \in BOOLEAN :
        WriteTo(v, idx, lef, checks)

SpecEncodeTree == InitEncode /\ [][NextEncodeTree]_vars

(***************************************************************************)
(* SpecArray: a caller drives an array view with next, get_element, reset  *)
(***************************************************************************)
IsArrayAt0(b, lef) == IF b = <<>> THEN FALSE ELSE from_slice_idx(b, 0, lef).kind = "Array"

InitArray ==
    /\ \/ buffer \in FreeBuffers
       \/ buffer \in SeedBuffers
    /\ \E lef \in BOOLEAN :
          /\ IsArrayAt0(buffer, lef)
          /\ arr = from_slice_idx(buffer, 0, lef).dec
    /\ elem = NoCall
    /\ map = NoView
    /\ out = NoCall
    /\ hist = <<>>
    /\ enc = NoCall

Alive == IF out.kind = "NoCall" THEN TRUE ELSE out.ret.kind # "Panic"

Called(op, arg, r) == out' = [kind |-> "Called", op |-> op, arg |-> arg, ret |-> r.ret]

ArrCalled(op, arg, r) ==
    /\ arr' = r.self
    /\ Called(op, arg, r)
    /\ hist' = IF op = "next" THEN Append(hist, r.ret) ELSE hist

\* arr.next()
ArrNext ==
    /\ arr # NoView
    /\ Alive
    /\ Len(hist) < MaxCalls
    /\ ArrCalled("next", 0, ArrayDecoder_next(arr))
    /\ UNCHANGED <<buffer, elem, map, enc>>

\* arr.get_element(i)
ArrGet(i) ==
    /\ arr # NoView
    /\ Alive
    /\ ArrCalled("get_element", i, ArrayDecoder_get_element(arr, i))
    /\ UNCHANGED <<buffer, elem, map, enc>>

\* arr.reset()
ArrReset ==
    /\ arr # NoView
    /\ Alive
    /\ arr' = ArrayDecoder_reset(arr)
    /\ out' = [kind |-> "Called", op |-> "reset", arg |-> 0, ret |-> None]
    /\ hist' = <<>>
    /\ UNCHANGED <<buffer, elem, map, enc>>

NextArray ==
    \/ ArrNext
    \/ \E i \in 0..MaxCalls : ArrGet(i)
    \/ ArrReset

SpecArray == InitArray /\ [][NextArray]_vars

(***************************************************************************)
(* SpecMap: a caller drives a map view with next and reset                 *)
(***************************************************************************)
IsMapAt0(b, lef) == IF b = <<>> THEN FALSE ELSE from_slice_idx(b, 0, lef).kind = "Map"

InitMap ==
    /\ \/ buffer \in FreeBuffers
       \/ buffer \in SeedBuffers
    /\ \E lef \in BOOLEAN :
          /\ IsMapAt0(buffer, lef)
          /\ map = from_slice_idx(buffer, 0, lef).dec
    /\ elem = NoCall
    /\ arr = NoView
    /\ out = NoCall
    /\ hist = <<>>
    /\ enc = NoCall

MapCalled(r) ==
    /\ map' = r.self
    /\ Called("next", 0, r)
    /\ hist' = Append(hist, r.ret)

\* map.next()
MapNext ==
    /\ map # NoView
    /\ Alive
    /\ Len(hist) < MaxCalls
    /\ MapCalled(MapDecoder_next(map))
    /\ UNCHANGED <<buffer, elem, arr, enc>>

\* map.reset()
MapReset ==
    /\ map # NoView
    /\ Alive
    /\ map' = MapDecoder_reset(map)
    /\ out' = [kind |-> "Called", op |-> "reset", arg |-> 0, ret |-> None]
    /\ hist' = <<>>
    /\ UNCHANGED <<buffer, elem, arr, enc>>

NextMap ==
    \/ MapNext
    \/ MapReset

SpecMap == InitMap /\ [][NextMap]_vars

(***************************************************************************)
(* SpecViews: a caller holds an array view or a map view, iterates it and  *)
(* asks its byte_size at any point                                         *)
(***************************************************************************)
InitViews ==
    /\ \/ buffer \in FreeBuffers
       \/ buffer \in SeedBuffers
    /\ \E lef \in BOOLEAN :
          \/ /\ IsArrayAt0(buffer, lef)
             /\ arr = from_slice_idx(buffer, 0, lef).dec
             /\ map = NoView
          \/ /\ IsMapAt0(buffer, lef)
             /\ map = from_slice_idx(buffer, 0, lef).dec
             /\ arr = NoView
    /\ elem = NoCall
    /\ out = NoCall
    /\ hist = <<>>
    /\ enc = NoCall

\* a call of a method taking &self: the view is not touched
SizeCalled(view, size) ==
    out' = [kind |-> "Called", op |-> "byte_size", arg |-> 0,
            ret |-> SizeToWidth(size), before |-> view]

\* arr.byte_size()
ArrByteSize ==
    /\ arr # NoView
    /\ Alive
    /\ SizeCalled(arr, ArrayDecoder_byte_size(arr))
    /\ UNCHANGED <<buffer, elem, arr, map, hist, enc>>

\* map.byte_size()
MapByteSize ==
    /\ map # NoView
    /\ Alive
    /\ SizeCalled(map, MapDecoder_byte_size(map))
    /\ UNCHANGED <<buffer, elem, arr, map, hist, enc>>

NextViews ==
    \/ ArrNext
    \/ \E i \in 0..MaxCalls : ArrGet(i)
    \/ ArrReset
    \/ ArrByteSize
    \/ MapNext
    \/ MapReset
    \/ MapByteSize

SpecViews == InitViews /\ [][NextViews]_vars

(***************************************************************************)
(* SpecSizes: a caller asks the size helpers, of bytesize.rs and of lib.rs *)
(***************************************************************************)
MaxSmall == 260

\* the integers around zero and around every width boundary, as 64-bit patterns
SizeInputs ==
    {I64(n) : n \in (0 - MaxSmall)..MaxSmall}
    \cup {I64(n) : n \in {32767, 32768, 65535, 65536, -32768, -32769}}
    \cup {I32_MAX, I32_MIN, U32_MAX,
          <<0, 0, 0, 0, 128, 0, 0, 0>>, <<0, 0, 0, 1, 0, 0, 0, 0>>,
          <<255, 255, 255, 255, 127, 255, 255, 255>>,
          <<127, 255, 255, 255, 255, 255, 255, 255>>,
          <<128, 0, 0, 0, 0, 0, 0, 0>>}

InitSizes ==
    /\ buffer = <<>>
    /\ elem = NoCall
    /\ arr = NoView
    /\ map = NoView
    /\ out = NoCall
    /\ hist = <<>>
    /\ enc = NoCall

\* get_min_size_signed(i), in both files
SizeSigned(i) ==
    /\ out.kind = "NoCall"
    /\ out' = [kind |-> "Called", op |-> "get_min_size_signed", arg |-> i,
               ret |-> get_min_size_signed(i), lib |-> lib_get_min_size_signed(i)]
    /\ UNCHANGED <<buffer, elem, arr, map, hist, enc>>

\* get_min_size_unsigned(i), in both files
SizeUnsigned(i) ==
    /\ out.kind = "NoCall"
    /\ out' = [kind |-> "Called", op |-> "get_min_size_unsigned", arg |-> i,
               ret |-> get_min_size_unsigned(i), lib |-> lib_get_min_size_unsigned(i)]
    /\ UNCHANGED <<buffer, elem, arr, map, hist, enc>>

NextSizes ==
    \/ \E i \in SizeInputs : SizeSigned(i)
    \/ \E i \in SizeInputs : SizeUnsigned(i)

SpecSizes == InitSizes /\ [][NextSizes]_vars

(***************************************************************************)
(* SpecLib: a caller decodes with the from_slice_idx of lib.rs             *)
(***************************************************************************)
LibDecodeAt(idx, lef) ==
    /\ elem.kind = "NoCall"
    /\ elem' = [kind |-> "LibDecoded", idx |-> idx, lef |-> lef,
                res |-> lib_from_slice_idx(buffer, idx, lef), size |-> NoSize]
    /\ UNCHANGED <<buffer, arr, map, out, hist, enc>>

NextLib == \E idx \in 0..Len(buffer), lef \in BOOLEAN : LibDecodeAt(idx, lef)

SpecLib == Init /\ [][NextLib]_vars

(***************************************************************************)
(* The MessagePack wire format, as the reference the properties are        *)
(* stated against: the number of bytes the element starting at offset o    *)
(* of b occupies, or Short when b ends before that element is complete     *)
(* (or the tag is the unassigned 0xC1)                                     *)
(***************************************************************************)
Short == 0 - 1

RECURSIVE WireSize(_, _)
RECURSIVE WireRun(_, _, _)

WireAdd(a, b) == IF a = Short \/ b = Short THEN Short ELSE a + b

\* the big-endian length prefix of h bytes that follows the tag at o
WirePrefix(b, o, h) ==
    IF o + 1 + h > Len(b) THEN Short ELSE BeUsize(SubSeq(b, o + 2, o + 1 + h))

WireFit(b, o, size) ==
    IF size = Short THEN Short
    ELSE IF o + size > Len(b) THEN Short
    ELSE size

WireRunStep(b, o, n, s) ==
    IF s = Short THEN Short ELSE WireAdd(s, WireRun(b, o + s, n - 1))

\* n consecutive elements starting at offset o
WireRun(b, o, n) ==
    IF n = 0 THEN 0 ELSE WireRunStep(b, o, n, WireSize(b, o))

WireCount(b, o, h, per, n) ==
    IF n = Short THEN Short ELSE WireAdd(1 + h, WireRun(b, o + 1 + h, per * n))

Pow2(k) == IF k = 0 THEN 1 ELSE IF k = 1 THEN 2 ELSE IF k = 2 THEN 4 ELSE IF k = 3 THEN 8 ELSE 16

WireTagSize(b, o, t) ==
    IF t <= 127 \/ t >= 224 THEN 1
    ELSE IF t <= 143 THEN WireCount(b, o, 0, 2, t % 16)
    ELSE IF t <= 159 THEN WireCount(b, o, 0, 1, t % 16)
    ELSE IF t <= 191 THEN 1 + (t % 32)
    ELSE IF t \in {192, 194, 195} THEN 1
    ELSE IF t = 193 THEN Short
    ELSE IF t \in {196, 217} THEN WireAdd(2, WirePrefix(b, o, 1))
    ELSE IF t \in {197, 218} THEN WireAdd(3, WirePrefix(b, o, 2))
    ELSE IF t \in {198, 219} THEN WireAdd(5, WirePrefix(b, o, 4))
    ELSE IF t = 199 THEN WireAdd(3, WirePrefix(b, o, 1))
    ELSE IF t = 200 THEN WireAdd(4, WirePrefix(b, o, 2))
    ELSE IF t = 201 THEN WireAdd(6, WirePrefix(b, o, 4))
    ELSE IF t \in {204, 208} THEN 2
    ELSE IF t \in {205, 209} THEN 3
    ELSE IF t \in {202, 206, 210} THEN 5
    ELSE IF t \in {203, 207, 211} THEN 9
    ELSE IF t <= 216 THEN 2 + Pow2(t - 212)
    ELSE IF t = 220 THEN WireCount(b, o, 2, 1, WirePrefix(b, o, 2))
    ELSE IF t = 221 THEN WireCount(b, o, 4, 1, WirePrefix(b, o, 4))
    ELSE IF t = 222 THEN WireCount(b, o, 2, 2, WirePrefix(b, o, 2))
    ELSE WireCount(b, o, 4, 2, WirePrefix(b, o, 4))

WireSize(b, o) ==
    IF o >= Len(b) THEN Short ELSE WireFit(b, o, WireTagSize(b, o, b[o + 1]))

IsContainerTag(t) == (t >= 128 /\ t <= 159) \/ (t >= 220 /\ t <= 223)

\* b ends before the non-container element starting at o is complete
Truncated(b, o) ==
    /\ o < Len(b)
    /\ b[o + 1] # 193
    /\ ~IsContainerTag(b[o + 1])
    /\ WireSize(b, o) = Short

\* offset, inside view body b, of the k-th (0-based) of its elements
WireOffset(b, k) == WireRun(b, 0, k)

(***************************************************************************)
(* Properties of from_slice_idx and byte_size (Spec)                       *)
(***************************************************************************)
\* C1: for every buffer and every offset inside it, from_slice_idx returns
\* without panicking (no read at or beyond the end of the buffer), and when the
\* buffer ends before the non-container element at the offset is complete the
\* result is None.
C1_DecodeInsideNeverOverruns ==
    (elem.kind = "Decoded" /\ elem.idx < Len(buffer)) =>
        /\ elem.res.kind # "Panic"
        /\ (~elem.lef /\ Truncated(buffer, elem.idx)) => elem.res.kind = "None"

\* C3: for every well-formed element, byte_size equals the number of bytes the
\* element occupies on the wire, so offset + byte_size is the offset of the
\* first byte after it.
C3_ByteSizeIsWireSize ==
    (/\ elem.kind = "Decoded"
     /\ ~elem.lef
     /\ elem.size # NoSize
     /\ WireSize(buffer, elem.idx) # Short) =>
        elem.size = SomeSize(WireSize(buffer, elem.idx))

\* C4 (decoder half): from_slice_idx called with an offset at or past the end
\* of the buffer returns None.
C4_OffsetPastEndIsNone ==
    (elem.kind = "Decoded" /\ elem.idx >= Len(buffer)) => elem.res.kind = "None"

(***************************************************************************)
(* Properties of write_to (SpecEncode)                                     *)
(***************************************************************************)
\* i as a signed 64-bit number lies in lo..hi (lo, hi small integers)
InSigned(i, lo, hi) == ~I64Less(i, I64(lo)) /\ ~I64Less(I64(hi), i)
AtMostUnsigned(i, hi) == ~U64Less(hi, i)

\* width in bytes of the narrowest int / uint field that holds i
SignedWidth(i) ==
    IF InSigned(i, -128, 127) THEN 1
    ELSE IF InSigned(i, -32768, 32767) THEN 2
    ELSE IF ~I64Less(i, I32_MIN) /\ ~I64Less(I32_MAX, i) THEN 4
    ELSE 8
UnsignedWidth(i) ==
    IF AtMostUnsigned(i, I64(255)) THEN 1
    ELSE IF AtMostUnsigned(i, I64(65535)) THEN 2
    ELSE IF AtMostUnsigned(i, U32_MAX) THEN 4
    ELSE 8

LengthWidth(n) == IF n <= 255 THEN 1 ELSE IF n <= 65535 THEN 2 ELSE 4

\* size of the most compact MessagePack representation of encoder value v,
\* by the format's representation-selection rule
CompactSize(v) ==
    CASE v.kind \in {"Nil", "Bool"} -> 1
      [] v.kind = "Int" -> IF InSigned(v.val, -32, 127) THEN 1 ELSE 1 + SignedWidth(v.val)
      [] v.kind = "UInt" -> 1 + UnsignedWidth(v.val)
      [] v.kind = "Float" -> 5
      [] v.kind = "Double" -> 9
      [] v.kind = "Bin" -> 1 + LengthWidth(Len(v.bytes)) + Len(v.bytes)
      [] v.kind = "Str" -> IF Len(v.str) <= 31 THEN 1 + Len(v.str)
                           ELSE 1 + LengthWidth(Len(v.str)) + Len(v.str)
      [] v.kind = "Ext" -> IF Len(v.data) \in {1, 2, 4, 8, 16} THEN 2 + Len(v.data)
                           ELSE 2 + LengthWidth(Len(v.data)) + Len(v.data)

\* the bytes of the buffer from the offset to its end
Region == Len(enc.before) - enc.idx

\* a decoded element equals an encoder value, an Int and a UInt of the same
\* non-negative value counting as equal
SameValue(d, v) ==
    CASE v.kind = "Nil" -> d.kind = "Nil"
      [] v.kind = "Bool" -> d.kind = "Bool" /\ d.b = v.b
      [] v.kind \in {"Int", "UInt"} ->
            /\ d.kind \in {"Int", "UInt"}
            /\ d.val = v.val
            /\ (d.kind = v.kind \/ v.val[1] < 128)
      [] v.kind = "Float" -> d.kind = "Float" /\ d.bits = v.bits
      [] v.kind = "Double" -> d.kind = "Double" /\ d.bits = v.bits
      [] v.kind = "Bin" -> d.kind = "Bin" /\ d.bytes = v.bytes
      [] v.kind = "Str" -> d.kind = "Str" /\ d.str = v.str
      [] v.kind = "Ext" -> d.kind = "Ext" /\ d.exttype = v.exttype /\ d.data = v.data

\* C2: for every non-container value and every buffer large enough, write_to
\* at offset 0 with local_endian_fields false, then from_slice_idx on the same
\* buffer at offset 0, returns an element equal to the value (same variant,
\* same number / bytes / text / type and data).
C2_RoundTrip ==
    (/\ enc.kind = "Written"
     /\ enc.idx = 0
     /\ ~enc.lef
     /\ Region > CompactSize(enc.v)) =>
        /\ enc.ret > 0
        /\ elem.kind = "Decoded" => SameValue(elem.res, enc.v)

\* C5: with n the value write_to returned, every byte of the buffer outside
\* [offset, offset + n) is unchanged by the call.
C5_WritesOnlyReturnedRange ==
    (enc.kind = "Written" /\ ~enc.lef /\ enc.ret >= 0) =>
        \A k \in 1..Len(buffer) :
            (k <= enc.idx \/ k > enc.idx + enc.ret) => buffer[k] = enc.before[k]

C7_ReturnsCompactSize ==
    (enc.kind = "Written" /\ Region >= CompactSize(enc.v)) =>
        enc.ret = CompactSize(enc.v)

(***************************************************************************)
(* Properties of the array view (SpecArray) and the map view (SpecMap)     *)
(***************************************************************************)
\* the view's body holds all its declared elements, complete
WellFormedArray ==
    /\ arr # NoView
    /\ ~arr.local_endian_fields
    /\ WireRun(arr.array, 0, arr.elements) # Short

\* the k-th (0-based) element of the view, found by walking the wire format
ElementOnWire(body, k, lef) == from_slice_idx(body, WireOffset(body, k), lef)

\* C4 (view half): get_element(i) with i at or past the element count
\* returns None.
C4_GetPastCountIsNone ==
    (/\ arr # NoView
     /\ out.kind = "Called"
     /\ out.op = "get_element"
     /\ out.arg >= arr.elements) => out.ret = None

\* C8: for a well-formed array view with n elements, successive next() calls
\* return element 0, element 1, ..., element n-1 in that order, and the call
\* after the n-th returns nothing.
C8_ArrayNextInOrder ==
    WellFormedArray =>
        \A k \in 1..Len(hist) :
            hist[k] = IF k <= arr.elements
                      THEN ElementOnWire(arr.array, k - 1, FALSE)
                      ELSE None

\* every declared element of the well-formed view has the same wire size
UniformArray ==
    /\ WellFormedArray
    /\ \A k \in 0..(arr.elements - 1) :
          WireSize(arr.array, WireOffset(arr.array, k)) = WireSize(arr.array, 0)

\* C10: for an array view whose n declared elements all have the same wire
\* size s, get_element(i) returns the element decoded at byte offset i * s of
\* the view for 0 <= i < n and nothing for i >= n, whatever calls came before.
C10_GetElementRandomAccess ==
    (UniformArray /\ out.kind = "Called" /\ out.op = "get_element") =>
        out.ret = IF out.arg < arr.elements
                  THEN from_slice_idx(arr.array, out.arg * WireSize(arr.array, 0), FALSE)
                  ELSE None

\* the view's body holds all its declared keys and values, complete
WellFormedMap ==
    /\ map # NoView
    /\ ~map.local_endian_fields
    /\ WireRun(map.map, 0, 2 * map.elements) # Short

\* C9: for a well-formed map view with n pairs, successive next() calls return
\* exactly the n key/value pairs in wire order, and the call after the n-th
\* returns nothing.
C9_MapNextInOrder ==
    WellFormedMap =>
        \A k \in 1..Len(hist) :
            hist[k] = IF k <= map.elements
                      THEN MapElements(ElementOnWire(map.map, 2 * k - 2, FALSE),
                                       ElementOnWire(map.map, 2 * k - 1, FALSE))
                      ELSE None

(***************************************************************************)
(* Properties of byte_size on a view (SpecViews)                           *)
(***************************************************************************)
\* the view as from_slice_idx built it, before any call
FreshArray == ArrayDecoder(arr.header_size, arr.local_endian_fields, arr.array, arr.elements)
FreshMap == MapDecoder(map.header_size, map.local_endian_fields, map.map, map.elements)

SizeAsked == IF out.kind = "Called" THEN out.op = "byte_size" ELSE FALSE

\* C11: byte_size on an array or map view, called at any point of an iteration,
\* leaves the cursor, the end-of-buffer flag and the memoized element width of
\* the view unchanged and returns what it returns on the untouched view.
C11_ByteSizeIsPure ==
    SizeAsked =>
        /\ arr # NoView =>
              /\ arr = out.before
              /\ out.ret = SizeToWidth(ArrayDecoder_byte_size(FreshArray))
        /\ map # NoView =>
              /\ map = out.before
              /\ out.ret = SizeToWidth(MapDecoder_byte_size(FreshMap))

\* byte_size was asked of an array view in the middle of an iteration, with
\* the element width memoized, and returned a number
C11_Witness ==
    /\ SizeAsked
    /\ arr # NoView
    /\ arr.next_element > 0
    /\ arr.next_element < arr.elements
    /\ arr.element_size # NoSize
    /\ out.ret.kind = "Width"
    /\ out.ret.size > 1

(***************************************************************************)
(* Properties of the numeric tags (Spec)                                   *)
(***************************************************************************)
TagAt(b, o) == b[o + 1]

\* a decode at an offset inside the buffer, of the decode.rs from_slice_idx
DecodedInside == IF elem.kind = "Decoded" THEN elem.idx < Len(buffer) ELSE FALSE

\* C12: every tag byte t in 0xE0..=0xFF, 0xE0 included, decodes to Int of
\* width 0 and value t - 256, and its byte_size is 1.
C12_NegativeFixint ==
    (DecodedInside /\ TagAt(buffer, elem.idx) >= 224) =>
        /\ elem.res = Dec_Int(0, I64(TagAt(buffer, elem.idx) - 256))
        /\ elem.size # NoSize => elem.size = SomeSize(1)

\* the width a uint / int tag announces: 1, 2, 4, 8
TagWidth(t) == Pow2((t - 204) % 4)
Payload(b, o, w) == SubSeq(b, o + 2, o + 1 + w)

\* C13: with the endian flag false, a uint tag 0xCC..0xCF followed by its w
\* payload bytes decodes to UInt of width w and their big-endian unsigned
\* value, an int tag 0xD0..0xD3 to Int of width w and their big-endian
\* two's-complement value; byte_size is 1 + w.
C13_TaggedIntegers ==
    (/\ DecodedInside
     /\ ~elem.lef
     /\ TagAt(buffer, elem.idx) \in 204..211
     /\ WireSize(buffer, elem.idx) # Short) =>
        /\ elem.res =
              IF TagAt(buffer, elem.idx) <= 207
              THEN Dec_UInt(TagWidth(TagAt(buffer, elem.idx)),
                            ZeroExt(Payload(buffer, elem.idx, TagWidth(TagAt(buffer, elem.idx)))))
              ELSE Dec_Int(TagWidth(TagAt(buffer, elem.idx)),
                           SignExt(Payload(buffer, elem.idx, TagWidth(TagAt(buffer, elem.idx)))))
        /\ elem.size # NoSize => elem.size = SomeSize(1 + TagWidth(TagAt(buffer, elem.idx)))

\* C16 (decode.rs): the result of from_slice_idx at an offset inside the buffer
\* is the result of from_slice_idx at offset 0 of the buffer's tail.
C16_DecodeRsTailOnly ==
    DecodedInside =>
        elem.res = from_slice_idx(SubSeq(buffer, elem.idx + 1, Len(buffer)), 0, elem.lef)

(***************************************************************************)
(* Properties of the size helpers (SpecSizes)                              *)
(***************************************************************************)
Asked(op) == IF out.kind = "Called" THEN out.op = op ELSE FALSE

\* C14: get_min_size_signed(i) is the smallest width in {1,2,4,8} whose signed
\* range contains i: 1 for the i8 range, 2 for the i16 range, 4 for the i32
\* range, 8 otherwise.
C14_MinSizeSigned ==
    Asked("get_min_size_signed") =>
        /\ out.ret = SignedWidth(out.arg)
        /\ out.lib = SignedWidth(out.arg)

\* C15: get_min_size_unsigned(u) is the smallest width in {1,2,4,8} whose
\* unsigned range contains u: 1 up to 255, 2 up to 65535, 4 up to 2^32 - 1,
\* 8 otherwise.
C15_MinSizeUnsigned ==
    Asked("get_min_size_unsigned") =>
        /\ out.ret = UnsignedWidth(out.arg)
        /\ out.lib = UnsignedWidth(out.arg)

\* the helper was asked about 255, the last value of width 1
C15_Witness ==
    /\ Asked("get_min_size_unsigned")
    /\ out.arg = I64(255)
    /\ out.ret = 1
    /\ out.lib = 1

(***************************************************************************)
(* Properties of the from_slice_idx of lib.rs (SpecLib)                    *)
(***************************************************************************)
\* C16: decoding depends only on the bytes from the offset on: for every
\* offset inside the buffer and either flag, from_slice_idx(b, o, flag)
\* returns what from_slice_idx(b[o..], 0, flag) returns.
C16_TailOnly ==
    (elem.kind = "LibDecoded" /\ elem.idx < Len(buffer)) =>
        elem.res = lib_from_slice_idx(SubSeq(buffer, elem.idx + 1, Len(buffer)), 0, elem.lef)

(***************************************************************************)
(* Properties of the container tags (Spec)                                 *)
(***************************************************************************)
\* the bytes of b after the tag at o and a length prefix of h bytes
Body(b, o, h) == SubSeq(b, o + 2 + h, Len(b))

PrefixWidth(t) == IF t \in {220, 222} THEN 2 ELSE 4

\* the view a container tag stands for
ContainerView(b, o, t, lef) ==
    IF t <= 143 THEN Dec_Map(MapDecoder(0, lef, Body(b, o, 0), t % 16))
    ELSE IF t <= 159 THEN Dec_Array(ArrayDecoder(0, lef, Body(b, o, 0), t % 16))
    ELSE IF t <= 221
         THEN Dec_Array(ArrayDecoder(PrefixWidth(t), lef, Body(b, o, PrefixWidth(t)),
                                     WirePrefix(b, o, PrefixWidth(t))))
    ELSE Dec_Map(MapDecoder(PrefixWidth(t), lef, Body(b, o, PrefixWidth(t)),
                            WirePrefix(b, o, PrefixWidth(t))))

\* C17: every container tag is decoded: fixmap and fixarray yield a Map / Array
\* view with count tag & 0x0F and prefix width 0; array 16/32 and map 16/32
\* with a complete length prefix yield an Array / Map view whose count is the
\* big-endian prefix, whose prefix width is 2 or 4 and whose slice starts at
\* the first element byte.
C17_ContainerTags ==
    (/\ DecodedInside
     /\ IsContainerTag(TagAt(buffer, elem.idx))
     /\ TagAt(buffer, elem.idx) >= 220 =>
           /\ ~elem.lef
           /\ WirePrefix(buffer, elem.idx, PrefixWidth(TagAt(buffer, elem.idx))) # Short) =>
        elem.res = ContainerView(buffer, elem.idx, TagAt(buffer, elem.idx), elem.lef)

(***************************************************************************)
(* Properties of the bytes write_to produces (SpecEncode)                  *)
(***************************************************************************)
\* write_to was given a value of this variant, big-endian fields, and a
\* region with room to spare for the value's compact representation
WroteWithRoom(kind) ==
    IF enc.kind = "Written"
    THEN enc.v.kind = kind /\ ~enc.lef /\ Region > CompactSize(enc.v)
    ELSE FALSE

\* write_to returned the length of bytes and the buffer holds them at the offset
WroteExactly(bytes) ==
    /\ enc.ret = Len(bytes)
    /\ SubSeq(buffer, enc.idx + 1, enc.idx + Len(bytes)) = bytes

Low(i, w) == SubSeq(i, 9 - w, 8)

\* the compact encoding of Int(i)
IntOnWire(i) ==
    IF InSigned(i, -32, 127) THEN Low(i, 1)
    ELSE IF SignedWidth(i) = 1 THEN <<208>> \o Low(i, 1)
    ELSE IF SignedWidth(i) = 2 THEN <<209>> \o Low(i, 2)
    ELSE IF SignedWidth(i) = 4 THEN <<210>> \o Low(i, 4)
    ELSE <<211>> \o i

\* C18: Int(i) is written in its most compact form: the byte i for 0..127, the
\* byte (i as u8) for -32..-1, int 8 for -128..-33, otherwise the narrowest of
\* int 16 / 32 / 64, big-endian; the count returned is 1, 2, 3, 5 or 9.
C18_IntCompactForm ==
    WroteWithRoom("Int") => WroteExactly(IntOnWire(enc.v.val))

\* the header of a string of L bytes
StrHeader(L) ==
    IF L <= 31 THEN <<160 + L>>
    ELSE IF L <= 255 THEN <<217, L>>
    ELSE IF L <= 65535 THEN <<218>> \o ToBytes(L, 2)
    ELSE <<219>> \o ToBytes(L, 4)

\* C19: Str(s) of L bytes, written into a large enough buffer, does not panic
\* and produces the fixstr / str 8 / str 16 / str 32 header for L followed by
\* the L bytes of s; the count returned is header size + L.
C19_StrOnWire ==
    WroteWithRoom("Str") => WroteExactly(StrHeader(Len(enc.v.str)) \o enc.v.str)

\* the encoding of Ext{t, d}
ExtOnWire(t, d) ==
    IF Len(d) \in {1, 2, 4, 8, 16} THEN <<212 + log2(Len(d)), t>> \o d
    ELSE IF Len(d) <= 255 THEN <<199, Len(d), t>> \o d
    ELSE IF Len(d) <= 65535 THEN <<200>> \o ToBytes(Len(d), 2) \o <<t>> \o d
    ELSE <<201>> \o ToBytes(Len(d), 4) \o <<t>> \o d

\* C20: Ext{t, d} written into a large enough buffer is [0xD4 + log2(len), t,
\* d...] with count 2 + len when len is 1, 2, 4, 8 or 16, and otherwise the
\* ext 8 / 16 / 32 tag, the big-endian length prefix of width h, t, then d,
\* with count 2 + h + len.
C20_ExtOnWire ==
    WroteWithRoom("Ext") => WroteExactly(ExtOnWire(enc.v.exttype, enc.v.data))

(***************************************************************************)
(* Properties of write_to on containers (SpecEncodeTree)                   *)
(***************************************************************************)
RECURSIVE ValueOnWire(_)
RECURSIVE RunOnWire(_)
RECURSIVE PairsOnWire(_)

\* the header of a container of n elements (n pairs): fix form, 16, 32
CountHeader(fix, tag16, n) ==
    IF n <= 15 THEN <<fix + n>>
    ELSE IF n <= 65535 THEN <<tag16>> \o ToBytes(n, 2)
    ELSE <<tag16 + 1>> \o ToBytes(n, 4)

RunOnWire(elems) ==
    IF elems = <<>> THEN <<>> ELSE ValueOnWire(Head(elems)) \o RunOnWire(Tail(elems))

PairsOnWire(pairs) ==
    IF pairs = <<>> THEN <<>>
    ELSE ValueOnWire(Head(pairs)[1]) \o ValueOnWire(Head(pairs)[2]) \o PairsOnWire(Tail(pairs))

\* the encoding of a value tree
ValueOnWire(v) ==
    CASE v.kind = "Nil" -> <<192>>
      [] v.kind = "Bool" -> <<IF v.b THEN 195 ELSE 194>>
      [] v.kind = "Int" -> IntOnWire(v.val)
      [] v.kind = "Str" -> StrHeader(Len(v.str)) \o v.str
      [] v.kind = "Ext" -> ExtOnWire(v.exttype, v.data)
      [] v.kind = "Array" -> CountHeader(144, 220, Len(v.elems)) \o RunOnWire(v.elems)
      [] v.kind = "Map" -> CountHeader(128, 222, Len(v.pairs)) \o PairsOnWire(v.pairs)

WroteTree ==
    IF enc.kind = "Written" THEN enc.v.kind \in {"Array", "Map"} /\ ~enc.lef ELSE FALSE

TreeWritten(bytes) ==
    IF Region >= Len(bytes) THEN WroteExactly(bytes) ELSE enc.ret = 0

\* C21: Array(elems) is written as the header for its element count followed
\* by the encoding of each element in order, Map(pairs) as the map header for
\* its pair count followed by key then value of each pair; the count returned
\* is the header size plus the sum of the element counts, and 0 when an
\* element does not fit.
C21_ContainersOnWire ==
    WroteTree => TreeWritten(ValueOnWire(enc.v))

(***************************************************************************)
(* Strings (Spec)                                                          *)
(***************************************************************************)
IsStrTag(t) == (t >= 160 /\ t <= 191) \/ t \in {217, 218, 219}

StrPrefixWidth(t) == IF t <= 191 THEN 0 ELSE Pow2(t - 217)

\* the payload length the header declares, Short when the prefix is cut
DeclaredLen(b, o, t) ==
    IF t <= 191 THEN t % 32 ELSE WirePrefix(b, o, StrPrefixWidth(t))

\* the declared bytes that follow a header with an h-byte prefix
DeclaredRange(b, o, h, len) == SubSeq(b, o + 2 + h, o + 1 + h + len)

StrDeclared(b, o) ==
    DeclaredRange(b, o, StrPrefixWidth(TagAt(b, o)), DeclaredLen(b, o, TagAt(b, o)))

\* the decode reads the length prefix as the wire declares it
PrefixAsDeclared ==
    elem.lef => TagAt(buffer, elem.idx) \notin {197, 198, 200, 201, 218, 219}

StrComplete ==
    /\ IsStrTag(TagAt(buffer, elem.idx))
    /\ WireSize(buffer, elem.idx) # Short

\* C22: a Str is returned only for a string tag whose declared payload lies in
\* the buffer and is valid UTF-8; a declared payload that is not valid UTF-8
\* yields nothing; the returned payload is exactly the declared byte range
\* after the header.  The declared length is the big-endian prefix, whatever
\* the endian flag.
C22_StrOnlyValidUtf8 ==
    DecodedInside =>
        /\ elem.res.kind = "Str" => StrComplete
        /\ StrComplete =>
              elem.res = IF from_utf8(StrDeclared(buffer, elem.idx))
                         THEN Dec_Str(StrPrefixWidth(TagAt(buffer, elem.idx)),
                                      StrDeclared(buffer, elem.idx))
                         ELSE None

(***************************************************************************)
(* Bounds checks and ext elements (Spec)                                   *)
(***************************************************************************)
\* tags from_slice_idx has a branch for
HasBranch(t) == t \notin {193, 220, 221, 222, 223, 224}

\* the element starting at elem.idx lies entirely inside the buffer
FitsEntirely ==
    /\ DecodedInside
    /\ PrefixAsDeclared
    /\ HasBranch(TagAt(buffer, elem.idx))
    /\ WireSize(buffer, elem.idx) # Short

\* C23: an element whose last byte lies inside the buffer, the buffer's last
\* byte included, is decoded and not refused (a string payload that is not
\* UTF-8 aside); so is a fixext that exactly fills the rest of the buffer.
C23_ExactBounds ==
    (/\ FitsEntirely
     /\ IsStrTag(TagAt(buffer, elem.idx)) => from_utf8(StrDeclared(buffer, elem.idx))) =>
        IsSome(elem.res)

IsExtTag(t) == t \in {199, 200, 201} \/ (t >= 212 /\ t <= 216)

ExtPrefixWidth(t) == IF t >= 212 THEN 0 ELSE Pow2(t - 199)

ExtDeclaredLen(b, o, t) ==
    IF t >= 212 THEN Pow2(t - 212) ELSE WirePrefix(b, o, ExtPrefixWidth(t))

\* the Ext a header with an h-byte prefix and len declared bytes stands for:
\* the type byte follows the prefix, the data follows the type byte
ExtDeclared(b, o, h, len) ==
    Dec_Ext(h, b[o + 2 + h], DeclaredRange(b, o, h + 1, len))

\* C24: a successful decode of ext 8/16/32 or fixext yields Ext whose exttype
\* is the byte right after the length prefix (after the tag for fixext) and
\* whose data is the declared-length run after that type byte; byte_size is
\* 2 + h + len.
C24_ExtDecoded ==
    (/\ DecodedInside
     /\ PrefixAsDeclared
     /\ IsExtTag(TagAt(buffer, elem.idx))
     /\ IsSome(elem.res)) =>
        /\ elem.res = ExtDeclared(buffer, elem.idx,
                                  ExtPrefixWidth(TagAt(buffer, elem.idx)),
                                  ExtDeclaredLen(buffer, elem.idx, TagAt(buffer, elem.idx)))
        /\ elem.size # NoSize =>
              elem.size = SomeSize(2 + ExtPrefixWidth(TagAt(buffer, elem.idx))
                                     + ExtDeclaredLen(buffer, elem.idx, TagAt(buffer, elem.idx)))

(***************************************************************************)
(* Length prefixes under the endian flag (SpecEncode)                      *)
(***************************************************************************)
\* write_to wrote a Bin or Str of 256 bytes or more with the flag set
WroteLongWithFlag ==
    /\ enc.kind = "Written"
    /\ enc.lef
    /\ enc.v.kind \in {"Bin", "Str"}
    /\ enc.ret > 0
    /\ Len(IF enc.v.kind = "Bin" THEN enc.v.bytes ELSE enc.v.str) >= 256

\* C25: the length prefix is big-endian whatever the flag: a Bin or Str of 256
\* bytes or more written with the flag set is decoded, with the flag set, to
\* the same payload.
C25_PrefixBigEndianUnderFlag ==
    (WroteLongWithFlag /\ elem.kind = "Decoded") => SameValue(elem.res, enc.v)

(***************************************************************************)
(* Iteration of the views (SpecViews, SpecArray, SpecMap)                  *)
(***************************************************************************)
\* the results of calling next() n times on a view, up to a panic
RECURSIVE ArrRun(_, _)
ArrRunStep(r, n) ==
    IF r.ret.kind = "Panic" THEN <<r.ret>> ELSE <<r.ret>> \o ArrRun(r.self, n - 1)

ArrRun(view, n) ==
    IF n = 0 THEN <<>> ELSE ArrRunStep(ArrayDecoder_next(view), n)

RECURSIVE MapRun(_, _)
MapRunStep(r, n) ==
    IF r.ret.kind = "Panic" THEN <<r.ret>> ELSE <<r.ret>> \o MapRun(r.self, n - 1)

MapRun(view, n) ==
    IF n = 0 THEN <<>> ELSE MapRunStep(MapDecoder_next(view), n)

ResetCalled == IF out.kind = "Called" THEN out.op = "reset" ELSE FALSE

\* C26: after any sequence of next() and get_element() calls, reset() followed
\* by repeated next() yields the same results as iterating a freshly decoded
\* view of the same bytes, for arrays and for maps.
C26_ResetRestartsIteration ==
    ResetCalled =>
        /\ arr # NoView => ArrRun(arr, MaxCalls) = ArrRun(FreshArray, MaxCalls)
        /\ map # NoView => MapRun(map, MaxCalls) = MapRun(FreshMap, MaxCalls)

\* an array view was reset after earlier calls had memoized the element
\* width, and iterating it again yields an element
C26_Witness ==
    /\ ResetCalled
    /\ arr # NoView
    /\ arr.element_size # NoSize
    /\ IsSome(ArrRun(arr, 1)[1])

(***************************************************************************)
(* Reported sizes (Spec)                                                   *)
(***************************************************************************)
\* byte_size was called on the decoded element and returned a number
SizeReported ==
    /\ elem.kind = "Decoded"
    /\ IsSome(elem.res)
    /\ elem.size # NoSize
    /\ elem.size # SomeSize(PanicSize)

\* C27: for every element e that from_slice_idx returns at an offset,
\* offset + e.byte_size() <= buffer.len(), views and the containers nested in
\* them included.
C27_SizeInsideBuffer ==
    SizeReported => elem.idx + elem.size[1] <= Len(buffer)

\* the step is a get_element call
GetCalled == IF out'.kind = "Called" THEN out'.op = "get_element" ELSE FALSE

GetLeavesCursor == (arr # NoView /\ GetCalled) => arr'.next_element = arr.next_element

\* the results of next() since the view was built or reset are those of an
\* iteration with no other call in between
NextUnaffected == arr # NoView => hist = ArrRun(FreshArray, Len(hist))

\* C28: get_element(i), in or out of bounds, never changes next_element, and
\* the results next() returns are the same whatever get_element calls are
\* interleaved among the next() calls.
C28_GetElementLeavesIteration ==
    [](NextUnaffected) /\ [][GetLeavesCursor]_vars

\* get_element fetched an element other than the one at the cursor, after a
\* next() call and with a further element for next() to return
C28_Witness ==
    /\ arr # NoView
    /\ out.kind = "Called"
    /\ out.op = "get_element"
    /\ IsSome(out.ret)
    /\ Len(hist) >= 1
    /\ out.arg # arr.next_element
    /\ IsSome(ArrRun(arr, 1)[1])

\* the step is a next() call on the map view that returned nothing
MapNextNothing ==
    /\ map # NoView
    /\ IF out'.kind = "Called" THEN out'.op = "next" /\ out'.ret = None ELSE FALSE

NothingLeavesCursors ==
    MapNextNothing => /\ map'.next_idx = map.next_idx
                      /\ map'.next_map = map.next_map

\* among the results of next() since the view was built or reset, nothing is
\* followed by nothing only
NothingIsFinal ==
    map # NoView =>
        \A k \in 1..Len(hist) : hist[k] = None => \A j \in k..Len(hist) : hist[j] = None

\* C29: a MapDecoder::next() that returns nothing leaves next_idx and next_map
\* unchanged, and once next() has returned nothing every later next() returns
\* nothing until reset().
C29_MapNothingIsSticky ==
    [](NothingIsFinal) /\ [][NothingLeavesCursors]_vars

\* next() returned nothing twice because the pair at the cursor cannot be
\* decoded, with the buffer end and the declared count not yet reached
C29_Witness ==
    /\ map # NoView
    /\ Len(hist) >= 2
    /\ hist[Len(hist) - 1] = None
    /\ hist[Len(hist)] = None
    /\ map.next_idx < Len(map.map)
    /\ map.next_map < map.elements \div 2
    /\ ~map.eob

\* how many of the results are values
RECURSIVE Values(_)
Values(h) ==
    IF h = <<>> THEN 0 ELSE (IF IsSome(h[1]) THEN 1 ELSE 0) + Values(Tail(h))

\* C30: in every state reached by next(), get_element() and reset() calls the
\* cursor is within the declared count (next_element <= elements for an
\* array view, next_map <= elements for a map view), and since the last
\* reset next() has returned a value at most `elements` times.
C30_CursorWithinCount ==
    /\ arr # NoView => /\ arr.next_element <= arr.elements
                       /\ Values(hist) <= arr.elements
    /\ map # NoView => /\ map.next_map <= map.elements
                       /\ Values(hist) <= map.elements

\* an array view was iterated up to its declared count, having returned a
\* value, and next() was called once more
C30_Witness ==
    /\ arr # NoView
    /\ arr.elements >= 2
    /\ arr.next_element = arr.elements
    /\ Len(hist) > arr.elements
    /\ IsSome(hist[1])

====
